---- MODULE Spec2Model ----
(***************************************************************************)
(* Rolling replacement of the instances of an Auto Scaling group           *)
(* (lambda/main.py, lambda/autoscaling.py, lambda/ec2.py).                 *)
(*                                                                         *)
(* The live group is held by the cloud provider.  An invocation of         *)
(* replace_old_instances describes the group once (Fetch), derives from    *)
(* that snapshot alone the collaborator calls it makes, and issues them    *)
(* one at a time against the live group (Issue).                           *)
(***************************************************************************)
EXTENDS Integers, Sequences, FiniteSets, TLC

VARIABLES group, target_health, instance_health, next_id, inv

vars == <<group, target_health, instance_health, next_id, inv>>

(***************************************************************************)
(* Bounds of the model.                                                    *)
(***************************************************************************)
\* Largest number of instances of a group, as first described.
MaxInstances == 3
\* Largest MaxSize of a group.
MaxMaxSize == 3
\* Largest number of instances the provider launches during one rollout.
MaxLaunches == 2
\* The most health records one instance has in the target groups, and in the
\* load balancers.
MaxRecords == 2

(***************************************************************************)
(* Constants of AutoScalingGroup.                                          *)
(***************************************************************************)
SCALING_PROCESSES == {"AlarmNotification", "AZRebalance", "Launch", "ScheduledActions"}

\* A status "Field:Value" is the pair <<Field, Value>>.
READY_STATUS == <<"All", "Ready">>

LAUNCHING_STATUSES == {<<"LifecycleState", "Pending">>, <<"LifecycleState", "PendingWait">>}

TERMINATING_STATUSES == {<<"HealthStatus", "Unhealthy">>, <<"LifecycleState", "Terminating">>}

(***************************************************************************)
(* Tags.  A tag value is a string, modelled as the sequence of its         *)
(* characters so that str.lower() is computed character by character.      *)
(***************************************************************************)
UPPERCASE == <<"A", "B", "C", "D", "E", "F", "G", "H", "I", "J", "K", "L", "M", "N",
               "O", "P", "Q", "R", "S", "T", "U", "V", "W", "X", "Y", "Z">>

LOWERCASE == <<"a", "b", "c", "d", "e", "f", "g", "h", "i", "j", "k", "l", "m", "n",
               "o", "p", "q", "r", "s", "t", "u", "v", "w", "x", "y", "z">>

\* str.lower() on one character.
lower_char(c) ==
    IF \E k \in DOMAIN UPPERCASE : UPPERCASE[k] = c
    THEN LOWERCASE[CHOOSE k \in DOMAIN UPPERCASE : UPPERCASE[k] = c]
    ELSE c

\* str.lower()
lower(value) == [k \in DOMAIN value |-> lower_char(value[k])]

DISABLED_TAGS ==
    {<<"0">>,
     <<"d", "i", "s", "a", "b", "l", "e", "d">>,
     <<"f", "a", "l", "s", "e">>,
     <<"n", "o">>,
     <<"o", "f", "f">>}

\* The test of the tag value without lower().
is_managed_case_sensitive(asg) ==
    LET tags == SelectSeq(asg.Tags, LAMBDA tag : tag.Key = "InstanceReplacement")
    IN  IF tags = <<>> THEN FALSE
        ELSE tags[1].Value \notin DISABLED_TAGS

\* AutoScalingGroup.is_managed: the first InstanceReplacement tag decides.
is_managed(asg) ==
    LET tags == SelectSeq(asg.Tags, LAMBDA tag : tag.Key = "InstanceReplacement")
    IN  IF tags = <<>> THEN FALSE
        ELSE lower(tags[1].Value) \notin DISABLED_TAGS

(***************************************************************************)
(* Helpers on sequences.                                                   *)
(***************************************************************************)
Range(s) == {s[k] : k \in 1..Len(s)}

\* collections.defaultdict(list): an absent key reads as the empty list.
Lookup(index, instance_id) ==
    IF instance_id \in DOMAIN index THEN index[instance_id] ELSE <<>>

(***************************************************************************)
(* AutoScalingGroup.get_instance_status                                    *)
(***************************************************************************)
\* The checks with the load balancers asked before the target groups.
get_instance_status_load_balancer_first(asg, instance) ==
    IF instance.LifecycleState # "InService"
    THEN <<"LifecycleState", instance.LifecycleState>>
    ELSE IF instance.HealthStatus # "Healthy"
    THEN <<"HealthStatus", instance.HealthStatus>>
    ELSE LET descs == SelectSeq(Lookup(asg.target_health, instance.InstanceId),
                                LAMBDA desc : desc.State # "healthy")
             states == SelectSeq(Lookup(asg.instance_health, instance.InstanceId),
                                 LAMBDA state : state.State # "InService")
         IN  IF states # <<>> THEN <<"InstanceHealth", states[1].ReasonCode>>
             ELSE IF descs # <<>> THEN <<"TargetHealth", descs[1].Reason>>
             ELSE READY_STATUS

get_instance_status(asg, instance) ==
    IF instance.LifecycleState # "InService"
    THEN <<"LifecycleState", instance.LifecycleState>>
    ELSE IF instance.HealthStatus # "Healthy"
    THEN <<"HealthStatus", instance.HealthStatus>>
    ELSE LET descs == SelectSeq(Lookup(asg.target_health, instance.InstanceId),
                                LAMBDA desc : desc.State # "healthy")
             states == SelectSeq(Lookup(asg.instance_health, instance.InstanceId),
                                 LAMBDA state : state.State # "InService")
         IN  IF descs # <<>> THEN <<"TargetHealth", descs[1].Reason>>
             ELSE IF states # <<>> THEN <<"InstanceHealth", states[1].ReasonCode>>
             ELSE READY_STATUS

(***************************************************************************)
(* InstanceList: the filters, each a re-filter of the list it is applied   *)
(* to, in the order of that list.                                          *)
(***************************************************************************)
launching(asg, instances) ==
    SelectSeq(instances, LAMBDA instance :
        get_instance_status(asg, instance) \in LAUNCHING_STATUSES)

new(asg, instances) ==
    SelectSeq(instances, LAMBDA instance :
        instance.LaunchConfigurationName = asg.LaunchConfigurationName)

\* The old instances in the reverse of the order of the list.
old_reversed(asg, instances) ==
    LET olds == SelectSeq(instances, LAMBDA instance :
                    instance.LaunchConfigurationName # asg.LaunchConfigurationName)
    IN  [k \in 1..Len(olds) |-> olds[Len(olds) + 1 - k]]

old(asg, instances) ==
    SelectSeq(instances, LAMBDA instance :
        instance.LaunchConfigurationName # asg.LaunchConfigurationName)

\* The terminating instances by lifecycle state alone.
terminating_by_lifecycle(asg, instances) ==
    SelectSeq(instances, LAMBDA instance :
        get_instance_status(asg, instance) = <<"LifecycleState", "Terminating">>)

terminating(asg, instances) ==
    SelectSeq(instances, LAMBDA instance :
        get_instance_status(asg, instance) \in TERMINATING_STATUSES)

unready(asg, instances) ==
    SelectSeq(instances, LAMBDA instance :
        get_instance_status(asg, instance) # READY_STATUS)

(***************************************************************************)
(* AutoScalingGroup.is_suspend_processes_required                          *)
(***************************************************************************)
\* The test without `if self.instances.old`.
is_suspend_processes_required_any(asg) ==
    \E process \in SCALING_PROCESSES : process \notin asg.SuspendedProcesses

is_suspend_processes_required(asg) ==
    /\ old(asg, asg.Instances) # <<>>
    /\ \E process \in SCALING_PROCESSES : process \notin asg.SuspendedProcesses

(***************************************************************************)
(* Mutating collaborator calls.  A call is a record naming the operation   *)
(* and its arguments; an argument the operation does not take is left at   *)
(* its default ({} / -1 / 0).                                              *)
(***************************************************************************)
Call(op, processes, capacity, instance_id) ==
    [op |-> op, ScalingProcesses |-> processes,
     DesiredCapacity |-> capacity, InstanceId |-> instance_id]

\* autoscaling.suspend_processes(ScalingProcesses=SCALING_PROCESSES)
suspend_processes(asg) ==
    Call("suspend_processes", SCALING_PROCESSES, -1, 0)

\* The capacity raised straight to MaxSize.
increase_desired_capacity_to_max(asg) ==
    Call("update_auto_scaling_group", {}, asg.MaxSize, 0)

\* autoscaling.update_auto_scaling_group(DesiredCapacity=self['DesiredCapacity'] + 1)
increase_desired_capacity(asg) ==
    Call("update_auto_scaling_group", {}, asg.DesiredCapacity + 1, 0)

\* Resuming every process whatever the names given.
resume_processes_every(asg, scaling_processes) ==
    Call("resume_processes", {}, -1, 0)

\* Resume-all resuming only the processes the gate suspends.
resume_processes_own(asg, scaling_processes) ==
    Call("resume_processes",
         IF scaling_processes = {} THEN SCALING_PROCESSES ELSE scaling_processes, -1, 0)

\* autoscaling.resume_processes(**kwargs): ScalingProcesses is passed only
\* when scaling_processes is non-empty; without it every process is resumed.
resume_processes(asg, scaling_processes) ==
    Call("resume_processes", scaling_processes, -1, 0)

\* autoscaling.set_instance_health(InstanceId=..., HealthStatus='Unhealthy')
set_instance_unhealthy(asg, instance) ==
    Call("set_instance_health", {}, -1, instance.InstanceId)

\* ec2.terminate_instances(InstanceIds=[instance_id])
terminate_instance(instance) ==
    Call("terminate_instances", {}, -1, instance.InstanceId)

(***************************************************************************)
(* replace_old_instances, the bad state: more instances than MaxSize.      *)
(***************************************************************************)
\* The count taken one too high.
terminations_required_plus_one(asg) == Len(asg.Instances) - asg.MaxSize + 1

terminations_required(asg) == Len(asg.Instances) - asg.MaxSize

\* The chain without the new instances: what remains comes after the unready.
instances_in_termination_order_without_new(asg) ==
    terminating(asg, asg.Instances) \o launching(asg, asg.Instances)
        \o unready(asg, asg.Instances) \o asg.Instances

\* itertools.chain(terminating, launching, unready, new, instances)
instances_in_termination_order(asg) ==
    terminating(asg, asg.Instances) \o launching(asg, asg.Instances)
        \o unready(asg, asg.Instances) \o new(asg, asg.Instances) \o asg.Instances

\* The loop without its test: every selected instance is terminated.
is_already_terminating_never(asg, instance) == FALSE

\* The test of the loop that decides between waiting for an instance and
\* terminating it.
is_already_terminating(asg, instance) ==
    get_instance_status(asg, instance) = <<"LifecycleState", "Terminating">>

\* The for loop over the chain: ids is terminating_instance_ids in the order
\* the ids were added, calls the terminate calls issued so far.
RECURSIVE terminate_loop(_, _, _, _)
terminate_loop(asg, chain, ids, calls) ==
    IF chain = <<>> THEN [ids |-> ids, calls |-> calls]
    ELSE LET instance == Head(chain)
             instance_id == instance.InstanceId
         IN  IF instance_id \in Range(ids)
             THEN terminate_loop(asg, Tail(chain), ids, calls)
             ELSE LET calls2 == IF is_already_terminating(asg, instance)
                                THEN calls
                                ELSE Append(calls, terminate_instance(instance))
                      ids2 == Append(ids, instance_id)
                  IN  IF Len(ids2) = terminations_required(asg)
                      THEN [ids |-> ids2, calls |-> calls2]
                      ELSE terminate_loop(asg, Tail(chain), ids2, calls2)

(***************************************************************************)
(* replace_old_instances, State D: terminate one old instance.             *)
(* With an old unready instance the first of them is marked unhealthy.     *)
(* Otherwise `instance` is the InstanceList asg.instances.old itself, and  *)
(* instance['InstanceId'] indexes its list with a string: TypeError, raised*)
(* while the arguments of asg.log are evaluated, before any call.          *)
(***************************************************************************)
\* The step as it would be with asg.instances.old[0] in the else branch.
state_D_first_old(asg) ==
    LET olds == old(asg, asg.Instances)
        old_unready == unready(asg, olds)
    IN  [calls |-> <<set_instance_unhealthy(asg,
                        IF old_unready # <<>> THEN old_unready[1] ELSE olds[1])>>,
         raised |-> FALSE]

\* The step marking every old unready instance.
state_D_every(asg) ==
    LET old_unready == unready(asg, old(asg, asg.Instances))
    IN  [calls |-> [k \in 1..Len(old_unready) |-> set_instance_unhealthy(asg, old_unready[k])],
         raised |-> old_unready = <<>>]

state_D(asg) ==
    LET olds == old(asg, asg.Instances)
        old_unready == unready(asg, olds)
    IN  IF old_unready # <<>>
        THEN [calls |-> <<set_instance_unhealthy(asg, old_unready[1])>>, raised |-> FALSE]
        ELSE [calls |-> <<>>, raised |-> TRUE]

(***************************************************************************)
(* replace_old_instances: the calls one invocation makes on a snapshot, in *)
(* order, when every call succeeds.                                        *)
(*   state    the branch taken                                             *)
(*   calls    the calls issued                                             *)
(*   raised   the invocation ends in an exception of its own               *)
(*   ids      terminating_instance_ids of the bad state, in order          *)
(***************************************************************************)
replace_old_instances(asg) ==
    LET instances == asg.Instances
        gate == IF is_suspend_processes_required(asg)
                THEN <<suspend_processes(asg)>> ELSE <<>>
        news == new(asg, instances)
        olds == old(asg, instances)
    IN  IF Len(instances) > asg.MaxSize
        THEN LET r == terminate_loop(asg, instances_in_termination_order(asg), <<>>, <<>>)
             IN  [state |-> "max size exceeded", calls |-> gate \o r.calls,
                  raised |-> FALSE, ids |-> r.ids]
        ELSE IF asg.DesiredCapacity < asg.MaxSize /\ news = <<>>
        THEN [state |-> "A", calls |-> gate \o <<increase_desired_capacity(asg)>>,
              raised |-> FALSE, ids |-> <<>>]
        ELSE IF Len(instances) < asg.DesiredCapacity
        THEN [state |-> "B", calls |-> gate \o <<resume_processes(asg, {"Launch"})>>,
              raised |-> FALSE, ids |-> <<>>]
        ELSE IF unready(asg, news) # <<>> \/ terminating(asg, olds) # <<>>
        THEN [state |-> "C", calls |-> gate, raised |-> FALSE, ids |-> <<>>]
        ELSE IF olds # <<>>
        THEN [state |-> "D", calls |-> gate \o state_D(asg).calls,
              raised |-> state_D(asg).raised, ids |-> <<>>]
        ELSE IF asg.SuspendedProcesses # {}
        THEN [state |-> "E", calls |-> gate \o <<resume_processes(asg, {})>>,
              raised |-> FALSE, ids |-> <<>>]
        ELSE [state |-> "done", calls |-> gate, raised |-> FALSE, ids |-> <<>>]

(***************************************************************************)
(* The collaborator: what a call does to the live group.                   *)
(***************************************************************************)
\* SetInstanceHealth on the instance with this id, if the group still has it.
MarkUnhealthy(instances, instance_id) ==
    [k \in 1..Len(instances) |->
        IF instances[k].InstanceId = instance_id
        THEN [instances[k] EXCEPT !.HealthStatus = "Unhealthy"]
        ELSE instances[k]]

\* A provider whose update of the desired capacity is an increment.
Apply_increment(g, call) ==
    IF call.op = "suspend_processes"
    THEN [g EXCEPT !.SuspendedProcesses = @ \cup call.ScalingProcesses]
    ELSE IF call.op = "resume_processes"
    THEN [g EXCEPT !.SuspendedProcesses =
              IF call.ScalingProcesses = {} THEN {} ELSE @ \ call.ScalingProcesses]
    ELSE IF call.op = "update_auto_scaling_group"
    THEN [g EXCEPT !.DesiredCapacity = @ + 1]
    ELSE [g EXCEPT !.Instances = MarkUnhealthy(@, call.InstanceId)]

Apply(g, call) ==
    IF call.op = "suspend_processes"
    THEN [g EXCEPT !.SuspendedProcesses = @ \cup call.ScalingProcesses]
    ELSE IF call.op = "resume_processes"
    THEN [g EXCEPT !.SuspendedProcesses =
              IF call.ScalingProcesses = {} THEN {} ELSE @ \ call.ScalingProcesses]
    ELSE IF call.op = "update_auto_scaling_group"
    THEN [g EXCEPT !.DesiredCapacity = call.DesiredCapacity]
    ELSE \* set_instance_health, and terminate_instances: the group finds the
         \* instance unhealthy and takes it out of service itself
         [g EXCEPT !.Instances = MarkUnhealthy(@, call.InstanceId)]

(***************************************************************************)
(* State.                                                                  *)
(*   group            the live group, as describe_auto_scaling_groups      *)
(*                    returns it                                           *)
(*   target_health    target group health by instance id (elbv2)           *)
(*   instance_health  load balancer instance states by instance id (elb)   *)
(*   next_id          the id of the next instance the provider launches    *)
(*   inv              the invocations of replace_old_instances:            *)
(*     pc      "idle", "running", "done" (returned), "raised" (by the      *)
(*             function itself), "failed" (by a call answered not 200)     *)
(*     asg     the AutoScalingGroup object: the snapshot with its lazy     *)
(*             properties target_health and instance_health                *)
(*     run     replace_old_instances(asg)                                  *)
(*     issued  the number of calls of run.calls issued so far              *)
(*     failed  the position in run.calls of the call that failed, or 0     *)
(***************************************************************************)
Invocations == {1, 2}

Idle == [pc |-> "idle", asg |-> <<>>, run |-> <<>>, issued |-> 0, failed |-> 0]

LC_OLD == "lc-1"
LC_NEW == "lc-2"

Profiles == {"Ready", "Pending", "Terminating", "Unhealthy", "TargetUnhealthy"}

Instance(instance_id, lc, profile) ==
    [InstanceId |-> instance_id,
     LaunchConfigurationName |-> lc,
     LifecycleState |-> IF profile \in {"Pending", "Terminating"} THEN profile ELSE "InService",
     HealthStatus |-> IF profile = "Unhealthy" THEN "Unhealthy" ELSE "Healthy"]

TargetHealth(profile) ==
    IF profile = "TargetUnhealthy"
    THEN <<[State |-> "unhealthy", Reason |-> "Target.FailedHealthChecks"]>>
    ELSE <<[State |-> "healthy", Reason |-> ""]>>

\* The tag of a group under management: InstanceReplacement with a blank
\* value.
ManagedTags == <<[Key |-> "InstanceReplacement", Value |-> <<>>]>>

InitSuspended ==
    {{}, SCALING_PROCESSES, SCALING_PROCESSES \ {"Launch"}}

\* Any group of at most MaxInstances instances, in any order and condition.
Init ==
    /\ \E n \in 0..MaxInstances :
       \E lcs \in [1..n -> {LC_OLD, LC_NEW}], profiles \in [1..n -> Profiles] :
          /\ \E max \in 0..MaxMaxSize, susp \in InitSuspended :
             \E desired \in 0..max :
                group = [Instances |-> [k \in 1..n |-> Instance(k, lcs[k], profiles[k])],
                         DesiredCapacity |-> desired,
                         MaxSize |-> max,
                         SuspendedProcesses |-> susp,
                         LaunchConfigurationName |-> LC_NEW,
                         Tags |-> ManagedTags]
          /\ target_health = [k \in 1..n |-> TargetHealth(profiles[k])]
          /\ instance_health = [k \in 1..n |-> <<>>]
          /\ next_id = n + 1
    /\ inv = [i \in Invocations |-> Idle]

AutoScalingGroup ==
    [Instances |-> group.Instances,
     DesiredCapacity |-> group.DesiredCapacity,
     MaxSize |-> group.MaxSize,
     SuspendedProcesses |-> group.SuspendedProcesses,
     LaunchConfigurationName |-> group.LaunchConfigurationName,
     Tags |-> group.Tags,
     target_health |-> target_health,
     instance_health |-> instance_health]

Ended(run, issued) ==
    IF issued < Len(run.calls) THEN "running"
    ELSE IF run.raised THEN "raised" ELSE "done"

\* lambda_handler: describe the group and enter replace_old_instances.
Fetch(i) ==
    /\ inv[i].pc # "running"
    /\ LET asg == AutoScalingGroup
           run == replace_old_instances(asg)
       IN  inv' = [inv EXCEPT ![i] =
                      [pc |-> Ended(run, 0), asg |-> asg, run |-> run, issued |-> 0,
                            failed |-> 0]]
    /\ UNCHANGED <<group, target_health, instance_health, next_id>>

\* The next collaborator call of the invocation (suspend_processes,
\* update_auto_scaling_group, resume_processes, set_instance_health or
\* terminate_instances), answered with HTTPStatusCode 200.
Issue(i) ==
    /\ inv[i].pc = "running"
    /\ group' = Apply(group, inv[i].run.calls[inv[i].issued + 1])
    /\ inv' = [inv EXCEPT ![i].issued = @ + 1,
                          ![i].pc = Ended(inv[i].run, inv[i].issued + 1)]
    /\ UNCHANGED <<target_health, instance_health, next_id>>

Invocation(i) ==
    \/ Fetch(i)
    \/ Issue(i)

\* One invocation at a time on a group in any condition.
Next == Invocation(1)

Spec == Init /\ [][Next]_vars

(***************************************************************************)
(* A rollout: a group of old, Ready instances whose launch configuration   *)
(* has just changed, invocations that overlap, and the provider acting on  *)
(* the group between their calls.                                          *)
(***************************************************************************)
InitRollout ==
    /\ \E n \in 1..2 :
       \E max \in n..MaxMaxSize :
          /\ group = [Instances |-> [k \in 1..n |-> Instance(k, LC_OLD, "Ready")],
                      DesiredCapacity |-> n,
                      MaxSize |-> max,
                      SuspendedProcesses |-> {},
                      LaunchConfigurationName |-> LC_NEW,
                      Tags |-> ManagedTags]
          /\ target_health = [k \in 1..n |-> TargetHealth("Ready")]
          /\ instance_health = [k \in 1..n |-> <<>>]
          /\ next_id = n + 1
    /\ inv = [i \in Invocations |-> Idle]

\* The instances that count towards the desired capacity.
InCapacity(instances) ==
    SelectSeq(instances, LAMBDA instance :
        instance.LifecycleState # "Terminating" /\ instance.HealthStatus = "Healthy")

\* The Launch process: the group is short of its desired capacity.
Launch ==
    /\ "Launch" \notin group.SuspendedProcesses
    /\ Len(InCapacity(group.Instances)) < group.DesiredCapacity
    /\ next_id <= 2 + MaxLaunches
    /\ group' = [group EXCEPT !.Instances =
                    Append(@, Instance(next_id, group.LaunchConfigurationName, "Pending"))]
    /\ target_health' = (next_id :> TargetHealth("Ready")) @@ target_health
    /\ instance_health' = (next_id :> <<>>) @@ instance_health
    /\ next_id' = next_id + 1
    /\ UNCHANGED inv

\* A launched instance enters service.
EnterService ==
    /\ \E k \in 1..Len(group.Instances) :
          /\ group.Instances[k].LifecycleState = "Pending"
          /\ group' = [group EXCEPT !.Instances[k].LifecycleState = "InService"]
    /\ UNCHANGED <<target_health, instance_health, next_id, inv>>

\* The group takes an unhealthy instance out of service.
BeginTerminate ==
    /\ \E k \in 1..Len(group.Instances) :
          /\ group.Instances[k].HealthStatus = "Unhealthy"
          /\ group.Instances[k].LifecycleState # "Terminating"
          /\ group' = [group EXCEPT !.Instances[k].LifecycleState = "Terminating"]
    /\ UNCHANGED <<target_health, instance_health, next_id, inv>>

\* A terminating instance leaves the group.
Remove ==
    /\ \E k \in 1..Len(group.Instances) :
          /\ group.Instances[k].LifecycleState = "Terminating"
          /\ group' = [group EXCEPT !.Instances =
                          SubSeq(@, 1, k - 1) \o SubSeq(@, k + 1, Len(@))]
    /\ UNCHANGED <<target_health, instance_health, next_id, inv>>

\* A target group health check of an old instance in service fails.
TargetFails ==
    /\ \E k \in 1..Len(group.Instances) :
          /\ group.Instances[k].LaunchConfigurationName # group.LaunchConfigurationName
          /\ group.Instances[k].LifecycleState = "InService"
          /\ target_health[group.Instances[k].InstanceId] = TargetHealth("Ready")
          /\ target_health' = [target_health EXCEPT
                ![group.Instances[k].InstanceId] = TargetHealth("TargetUnhealthy")]
    /\ UNCHANGED <<group, instance_health, next_id, inv>>

Provider ==
    \/ Launch
    \/ EnterService
    \/ BeginTerminate
    \/ Remove
    \/ TargetFails

NextRollout ==
    \/ \E i \in Invocations : Invocation(i)
    \/ Provider

SpecRollout == InitRollout /\ [][NextRollout]_vars

(***************************************************************************)
(* What the properties below read: the snapshot an invocation acts on,     *)
(* described by positions in its instance list, and the calls issued.      *)
(***************************************************************************)
Started(i) == inv[i].pc # "idle"

Returned(i) == inv[i].pc \in {"done", "raised"}

Snapshot(i) == inv[i].asg

CallsIssued(i) == SubSeq(inv[i].run.calls, 1, inv[i].issued)

IsGateCall(call) == call.op = "suspend_processes"

\* The calls issued other than the suspend call of the gate.
ActionCalls(i) == SelectSeq(CallsIssued(i), LAMBDA call : ~IsGateCall(call))

Positions(a) == 1..Len(a.Instances)

StatusAt(a, k) == get_instance_status(a, a.Instances[k])

NewAt(a) == {k \in Positions(a) :
                a.Instances[k].LaunchConfigurationName = a.LaunchConfigurationName}

OldAt(a) == Positions(a) \ NewAt(a)

ReadyAt(a) == {k \in Positions(a) : StatusAt(a, k) = READY_STATUS}

TerminatingAt(a) == {k \in Positions(a) : StatusAt(a, k) \in TERMINATING_STATUSES}

Least(S) == CHOOSE k \in S : \A j \in S : k <= j

Overshoot(a) == Len(a.Instances) > a.MaxSize

RaiseCase(a) ==
    ~Overshoot(a) /\ a.DesiredCapacity < a.MaxSize /\ NewAt(a) = {}

AwaitLaunchCase(a) ==
    ~Overshoot(a) /\ ~RaiseCase(a) /\ Len(a.Instances) < a.DesiredCapacity

\* No higher-priority state matches.
PastLaunch(a) ==
    ~Overshoot(a) /\ ~RaiseCase(a) /\ Len(a.Instances) >= a.DesiredCapacity

RetireCase(a) ==
    /\ PastLaunch(a)
    /\ NewAt(a) \subseteq ReadyAt(a)
    /\ OldAt(a) \cap TerminatingAt(a) = {}
    /\ OldAt(a) # {}

\* The instance the retire step is to mark: the first old and unready
\* one, otherwise the first old one.
RetireChoice(a) ==
    IF OldAt(a) \ ReadyAt(a) # {}
    THEN a.Instances[Least(OldAt(a) \ ReadyAt(a))].InstanceId
    ELSE a.Instances[Least(OldAt(a))].InstanceId

(***************************************************************************)
(* C1. Retire step: when no higher-priority state matches, every new       *)
(* instance is Ready, no old instance is terminating and an old instance   *)
(* exists, the invocation returns without failing having issued exactly    *)
(* one set-instance-health call, on the first old-and-unready instance if  *)
(* there is one and on the first old instance otherwise.                   *)
(* Violated: with every old instance Ready the invocation raises before    *)
(* the call.                                                               *)
(***************************************************************************)
C1_RetireMarksOneOld ==
    \A i \in Invocations :
        Returned(i) /\ RetireCase(Snapshot(i)) =>
            /\ inv[i].pc = "done"
            /\ ActionCalls(i) =
                   <<Call("set_instance_health", {}, -1, RetireChoice(Snapshot(i)))>>

\* The positions of the snapshot whose instance a call issued so far marks
\* unhealthy or terminates.
TakenAt(i) ==
    {k \in Positions(Snapshot(i)) :
        \E c \in 1..Len(CallsIssued(i)) :
            /\ CallsIssued(i)[c].op \in {"set_instance_health", "terminate_instances"}
            /\ CallsIssued(i)[c].InstanceId = Snapshot(i).Instances[k].InstanceId}

Excess(a) == Len(a.Instances) - a.MaxSize

\* terminating_instance_ids of the invocation, in the order they were added.
Selected(i) == inv[i].run.ids

AlreadyTerminatingAt(a) ==
    {k \in Positions(a) : StatusAt(a, k) = <<"LifecycleState", "Terminating">>}

\* The number of terminate calls issued for the instance at position k.
TerminateCallsFor(i, k) ==
    Cardinality({c \in 1..Len(CallsIssued(i)) :
        /\ CallsIssued(i)[c].op = "terminate_instances"
        /\ CallsIssued(i)[c].InstanceId = Snapshot(i).Instances[k].InstanceId})

SelectedAt(i) ==
    {k \in Positions(Snapshot(i)) :
        Snapshot(i).Instances[k].InstanceId \in Range(Selected(i))}

(***************************************************************************)
(* C3. Overshoot count: with more instances than MaxSize an invocation     *)
(* selects exactly excess = count - MaxSize distinct instances of the      *)
(* snapshot, issues one terminate call for each selected instance that is  *)
(* not already terminating (LifecycleState:Terminating), none for a        *)
(* selected instance that is, and no other call besides the gate's; the    *)
(* number of terminate calls is excess minus the number of selected        *)
(* instances already terminating.                                          *)
(***************************************************************************)
C3_OvershootCount ==
    \A i \in Invocations :
        Returned(i) /\ Overshoot(Snapshot(i)) =>
            LET a == Snapshot(i) IN
            /\ Len(Selected(i)) = Excess(a)
            /\ Cardinality(SelectedAt(i)) = Excess(a)
            /\ \A k \in SelectedAt(i) :
                  TerminateCallsFor(i, k) = IF k \in AlreadyTerminatingAt(a) THEN 0 ELSE 1
            /\ \A k \in Positions(a) \ SelectedAt(i) : TerminateCallsFor(i, k) = 0
            /\ \A c \in 1..Len(ActionCalls(i)) : ActionCalls(i)[c].op = "terminate_instances"
            /\ Len(ActionCalls(i)) =
                   Excess(a) - Cardinality(SelectedAt(i) \cap AlreadyTerminatingAt(a))

\* An overshoot of two met by one instance already terminating and one
\* terminate call.
C3_Witness ==
    \E i \in Invocations :
        /\ Returned(i)
        /\ Excess(Snapshot(i)) = 2
        /\ Cardinality(SelectedAt(i) \cap AlreadyTerminatingAt(Snapshot(i))) = 1
        /\ Len(ActionCalls(i)) = 1

(***************************************************************************)
(* C4, as claimed. Overshoot never re-terminates: no terminate call is     *)
(* issued for an instance of the `terminating` filter set, whose status is *)
(* HealthStatus:Unhealthy or LifecycleState:Terminating.                   *)
(* Violated: a selected instance with HealthStatus:Unhealthy is            *)
(* terminated.                                                             *)
(***************************************************************************)
C4_NoTerminateInTerminatingSet ==
    \A i \in Invocations :
        Started(i) /\ Overshoot(Snapshot(i)) =>
            \A k \in TerminatingAt(Snapshot(i)) : TerminateCallsFor(i, k) = 0

(***************************************************************************)
(* C4, amended. In an overshoot correction no terminate call is issued for *)
(* an instance whose status is LifecycleState:Terminating: such instances  *)
(* are only counted toward the required total.  An instance whose status   *)
(* is HealthStatus:Unhealthy is terminated like any other selected         *)
(* instance.                                                               *)
(***************************************************************************)
C4_NoTerminateOfTerminating ==
    \A i \in Invocations :
        Started(i) /\ Overshoot(Snapshot(i)) =>
            LET a == Snapshot(i) IN
            /\ \A k \in AlreadyTerminatingAt(a) : TerminateCallsFor(i, k) = 0
            /\ Returned(i) =>
                  \A k \in SelectedAt(i) :
                      StatusAt(a, k) = <<"HealthStatus", "Unhealthy">> =>
                          TerminateCallsFor(i, k) = 1

\* An overshoot correction has selected an instance that is terminating,
\* without a call, and an unhealthy one, which it terminated.
C4_Witness ==
    \E i \in Invocations :
        /\ Returned(i)
        /\ Overshoot(Snapshot(i))
        /\ \E k \in SelectedAt(i) :
              /\ k \in AlreadyTerminatingAt(Snapshot(i))
              /\ TerminateCallsFor(i, k) = 0
        /\ \E k \in SelectedAt(i) :
              /\ StatusAt(Snapshot(i), k) = <<"HealthStatus", "Unhealthy">>
              /\ TerminateCallsFor(i, k) = 1

ResumeAll == Call("resume_processes", {}, -1, 0)

(***************************************************************************)
(* C5, as claimed. Completion: on a snapshot with no old instance and a    *)
(* non-empty set of suspended processes, the invocation issues resume-all  *)
(* exactly once and no other mutating call.                                *)
(* Violated: a higher-priority state (overshoot, capacity raise, await     *)
(* launch, await readiness) fires instead.                                 *)
(***************************************************************************)
C5_CompletionAlways ==
    \A i \in Invocations :
        /\ Returned(i)
        /\ OldAt(Snapshot(i)) = {}
        /\ Snapshot(i).SuspendedProcesses # {}
        => CallsIssued(i) = <<ResumeAll>>

(***************************************************************************)
(* C5, amended. Completion: on a snapshot with no old instance and a       *)
(* non-empty set of suspended processes in which no higher-priority state  *)
(* matches (count <= MaxSize, not (desired < MaxSize with no new           *)
(* instance), count >= desired, every new instance Ready), the invocation  *)
(* issues resume-all exactly once and no other mutating call.              *)
(***************************************************************************)
C5_Completion ==
    \A i \in Invocations :
        /\ Returned(i)
        /\ OldAt(Snapshot(i)) = {}
        /\ Snapshot(i).SuspendedProcesses # {}
        /\ PastLaunch(Snapshot(i))
        /\ NewAt(Snapshot(i)) \subseteq ReadyAt(Snapshot(i))
        => /\ inv[i].pc = "done"
           /\ CallsIssued(i) = <<ResumeAll>>

\* A rollout completes: new Ready instances only, processes suspended, and
\* the resume-all call has left the live group with none suspended.
C5_Witness ==
    \E i \in Invocations :
        /\ inv[i].pc = "done"
        /\ OldAt(Snapshot(i)) = {}
        /\ Snapshot(i).Instances # <<>>
        /\ Snapshot(i).SuspendedProcesses = SCALING_PROCESSES
        /\ CallsIssued(i) = <<ResumeAll>>
        /\ group.SuspendedProcesses = {}

(***************************************************************************)
(* C6, as claimed. Terminal no-op: on a snapshot with no old instance and  *)
(* no suspended process the invocation issues no mutating call, whatever   *)
(* the instance count, desired capacity and MaxSize.                       *)
(* Violated: an empty group with desired < MaxSize has its desired         *)
(* capacity raised; a group short of its desired capacity gets a resume of *)
(* Launch; a group over MaxSize gets terminate calls.                      *)
(***************************************************************************)
C6_TerminalNoOpAlways ==
    \A i \in Invocations :
        /\ Started(i)
        /\ OldAt(Snapshot(i)) = {}
        /\ Snapshot(i).SuspendedProcesses = {}
        => inv[i].run.calls = <<>>

(***************************************************************************)
(* C6, amended. Terminal no-op: on a snapshot with no old instance and no  *)
(* suspended process in which none of overshoot, capacity raise and await  *)
(* launch matches (count <= MaxSize, not (desired < MaxSize with no new    *)
(* instance), count >= desired), the invocation issues no mutating call.   *)
(***************************************************************************)
C6_TerminalNoOp ==
    \A i \in Invocations :
        /\ Started(i)
        /\ OldAt(Snapshot(i)) = {}
        /\ Snapshot(i).SuspendedProcesses = {}
        /\ PastLaunch(Snapshot(i))
        => /\ inv[i].pc = "done"
           /\ inv[i].run.calls = <<>>

\* An invocation has returned from a finished group without a call: new
\* instances as many as desired, nothing suspended.
C6_Witness ==
    \E i \in Invocations :
        /\ inv[i].pc = "done"
        /\ OldAt(Snapshot(i)) = {}
        /\ Snapshot(i).SuspendedProcesses = {}
        /\ Len(Snapshot(i).Instances) = 2
        /\ Snapshot(i).DesiredCapacity = 2
        /\ inv[i].run.calls = <<>>

(***************************************************************************)
(* C7, as claimed. At most one mutation: every invocation issues at most   *)
(* one mutating call besides the suspend call of the gate.                 *)
(* Violated: an overshoot of two or more issues a terminate call for each  *)
(* selected instance that is not already terminating.                      *)
(***************************************************************************)
C7_AtMostOneMutation ==
    \A i \in Invocations :
        Started(i) => Len(ActionCalls(i)) <= 1

(***************************************************************************)
(* C7, amended. Every invocation issues at most one suspend call and,      *)
(* besides it, at most one mutating call, except in overshoot correction   *)
(* (count > MaxSize), where it issues at most count - MaxSize calls, all   *)
(* of them terminate calls.                                                *)
(***************************************************************************)
C7_AtMostOneMutationButOvershoot ==
    \A i \in Invocations :
        Started(i) =>
            /\ Len(CallsIssued(i)) - Len(ActionCalls(i)) <= 1
            /\ IF Overshoot(Snapshot(i))
               THEN /\ Len(ActionCalls(i)) <= Excess(Snapshot(i))
                    /\ \A c \in 1..Len(ActionCalls(i)) :
                          ActionCalls(i)[c].op = "terminate_instances"
               ELSE Len(ActionCalls(i)) <= 1

\* An overshoot of two has been corrected with two terminate calls, after
\* the suspend call of the gate.
C7_Witness ==
    \E i \in Invocations :
        /\ Returned(i)
        /\ Excess(Snapshot(i)) = 2
        /\ Len(ActionCalls(i)) = 2
        /\ Len(CallsIssued(i)) = 3

(***************************************************************************)
(* C8. Capacity raise: without overshoot, with desired < MaxSize and no    *)
(* new instance in the snapshot, the invocation issues exactly one         *)
(* update-desired-capacity call, of the snapshot's desired + 1, and no     *)
(* terminate, resume or set-instance-health call; with old instances and   *)
(* not all four processes suspended the suspend call precedes it.          *)
(***************************************************************************)
C8_CapacityRaise ==
    \A i \in Invocations :
        Returned(i) /\ RaiseCase(Snapshot(i)) =>
            LET a == Snapshot(i)
                update == Call("update_auto_scaling_group", {}, a.DesiredCapacity + 1, 0)
                gated == OldAt(a) # {} /\ ~(SCALING_PROCESSES \subseteq a.SuspendedProcesses)
            IN  /\ inv[i].pc = "done"
                /\ ActionCalls(i) = <<update>>
                /\ CallsIssued(i) =
                       IF gated
                       THEN <<Call("suspend_processes", SCALING_PROCESSES, -1, 0), update>>
                       ELSE <<update>>

\* Scenario A: MaxSize 3, desired 2, two old Ready instances, nothing
\* suspended; the four processes are now suspended and desired is 3.
C8_Witness ==
    \E i \in Invocations :
        /\ inv[i].pc = "done"
        /\ Snapshot(i).MaxSize = 3
        /\ Snapshot(i).DesiredCapacity = 2
        /\ Len(Snapshot(i).Instances) = 2
        /\ OldAt(Snapshot(i)) = {1, 2}
        /\ ReadyAt(Snapshot(i)) = {1, 2}
        /\ Snapshot(i).SuspendedProcesses = {}
        /\ Len(CallsIssued(i)) = 2
        /\ group.SuspendedProcesses = SCALING_PROCESSES
        /\ group.DesiredCapacity = 3

(***************************************************************************)
(* C9. Desired never exceeds max, and is never lowered: in every step of   *)
(* every interleaving of overlapping invocations and provider steps the    *)
(* desired capacity of the live group stays <= MaxSize and does not        *)
(* decrease.                                                               *)
(* Violated: an invocation holding a stale snapshot writes the absolute    *)
(* value (its snapshot's desired + 1) over a higher value written by a     *)
(* later invocation.                                                       *)
(***************************************************************************)
C9_DesiredWithinMaxNeverLowered ==
    [][/\ group'.DesiredCapacity <= group'.MaxSize
       /\ group'.DesiredCapacity >= group.DesiredCapacity]_vars

GateCall == Call("suspend_processes", SCALING_PROCESSES, -1, 0)

GateCallsIssued(i) == SelectSeq(CallsIssued(i), IsGateCall)

(***************************************************************************)
(* C10. Suspension gate: an invocation issues a suspend call naming the    *)
(* four fixed processes if and only if its snapshot has an old instance    *)
(* and one of the four is not suspended; the call is then the first of the *)
(* invocation, and the action of the state (terminate calls of overshoot,  *)
(* capacity raise, resume of Launch, set-instance-health of retire) is     *)
(* still issued after it.                                                  *)
(* Violated: after the gate, the retire step on a group whose old          *)
(* instances are all Ready raises before its call (C1).                    *)
(***************************************************************************)
C10_SuspensionGate ==
    \A i \in Invocations :
        Returned(i) =>
            LET a == Snapshot(i)
                required == OldAt(a) # {} /\ \E p \in SCALING_PROCESSES : p \notin a.SuspendedProcesses
            IN  /\ GateCallsIssued(i) = IF required THEN <<GateCall>> ELSE <<>>
                /\ required => CallsIssued(i)[1] = GateCall
                /\ required /\ Overshoot(a) =>
                      Len(ActionCalls(i)) =
                          Excess(a) - Cardinality(SelectedAt(i) \cap AlreadyTerminatingAt(a))
                /\ required /\ RaiseCase(a) =>
                      ActionCalls(i) =
                          <<Call("update_auto_scaling_group", {}, a.DesiredCapacity + 1, 0)>>
                /\ required /\ AwaitLaunchCase(a) =>
                      ActionCalls(i) = <<Call("resume_processes", {"Launch"}, -1, 0)>>
                /\ required /\ RetireCase(a) =>
                      ActionCalls(i) = <<Call("set_instance_health", {}, -1, RetireChoice(a))>>

(***************************************************************************)
(* A rollout under fair scheduling: the function is invoked again and      *)
(* again by events and schedules, and the provider does not delay for ever *)
(* a launch it is due, the entry into service of a launched instance, or   *)
(* the termination and removal of an unhealthy one.  Health checks may     *)
(* fail (TargetFails) but need not.                                        *)
(***************************************************************************)
NextLive ==
    \/ Invocation(1)
    \/ Provider

Fairness ==
    /\ WF_vars(Invocation(1))
    /\ WF_vars(Launch)
    /\ WF_vars(EnterService)
    /\ WF_vars(BeginTerminate)
    /\ WF_vars(Remove)

SpecLive == InitRollout /\ [][NextLive]_vars /\ Fairness

\* The rollout is over: no old instance, no suspended process, the last
\* invocation having resumed all processes and logged 'complete'.
Completed ==
    /\ old(group, group.Instances) = <<>>
    /\ group.SuspendedProcesses = {}
    /\ inv[1].pc = "done"
    /\ inv[1].run.state = "E"

\* A health check has failed at some time: the provider is not the
\* cooperative one of the claim.
TargetHasFailed ==
    \E instance_id \in DOMAIN target_health :
        target_health[instance_id] # TargetHealth("Ready")

(***************************************************************************)
(* C11. Rollout completes: from a group whose instances are all old and    *)
(* Ready, with every call succeeding and a cooperative provider (no health *)
(* check ever fails), repeated invocations eventually reach a state with   *)
(* no old instance and no suspended process, the controller having issued  *)
(* resume-all and logged 'complete'.                                       *)
(* Violated: once the new instances are Ready every invocation raises in   *)
(* the retire step (C1); no old instance is ever marked unhealthy.         *)
(***************************************************************************)
C11_RolloutCompletes == <>(Completed \/ TargetHasFailed)

(***************************************************************************)
(* The status of one instance, for every combination of its fields and of  *)
(* its health records: a group of one instance, of any lifecycle state and *)
(* health status, with up to MaxRecords records in the target groups and   *)
(* in the load balancers, or absent from an index.                         *)
(***************************************************************************)
LifecycleStates == {"Pending", "InService", "Terminating"}

HealthStatuses == {"Healthy", "Unhealthy"}

\* describe_target_health: TargetHealth.State and TargetHealth.Reason.
TargetRecords ==
    {[State |-> "healthy", Reason |-> ""],
     [State |-> "unhealthy", Reason |-> "Target.FailedHealthChecks"],
     [State |-> "draining", Reason |-> "Target.DeregistrationInProgress"]}

\* describe_instance_health: State and ReasonCode.
InstanceStates ==
    {[State |-> "InService", ReasonCode |-> "N/A"],
     [State |-> "OutOfService", ReasonCode |-> "Instance"]}

\* The lists of at most MaxRecords elements of S.
Lists(S) == UNION {[1..n -> S] : n \in 0..MaxRecords}

\* An index with the instance's records, or without the instance.
Indexes(S) == {<<>>} \cup {<<records>> : records \in Lists(S)}

InitStatus ==
    /\ \E lc \in {LC_OLD, LC_NEW}, lifecycle \in LifecycleStates, health \in HealthStatuses :
          group = [Instances |-> <<[InstanceId |-> 1,
                                    LaunchConfigurationName |-> lc,
                                    LifecycleState |-> lifecycle,
                                    HealthStatus |-> health]>>,
                   DesiredCapacity |-> 1,
                   MaxSize |-> 1,
                   SuspendedProcesses |-> {},
                   LaunchConfigurationName |-> LC_NEW,
                   Tags |-> ManagedTags]
    /\ target_health \in Indexes(TargetRecords)
    /\ instance_health \in Indexes(InstanceStates)
    /\ next_id = 2
    /\ inv = [i \in Invocations |-> Idle]

SpecStatus == InitStatus /\ [][Next]_vars

\* The checks of the status, each on its own.
LifecycleFails(instance) == instance.LifecycleState # "InService"

HealthFails(instance) == instance.HealthStatus # "Healthy"

\* The positions of the target group records that are not healthy.
TargetFailsAt(a, instance) ==
    IF instance.InstanceId \in DOMAIN a.target_health
    THEN {r \in DOMAIN a.target_health[instance.InstanceId] :
             a.target_health[instance.InstanceId][r].State # "healthy"}
    ELSE {}

\* The positions of the load balancer records that are not in service.
BalancerFailsAt(a, instance) ==
    IF instance.InstanceId \in DOMAIN a.instance_health
    THEN {r \in DOMAIN a.instance_health[instance.InstanceId] :
             a.instance_health[instance.InstanceId][r].State # "InService"}
    ELSE {}

\* The status is that of the first failing check, or Ready.
StatusByPriority(a, instance, status) ==
    IF LifecycleFails(instance)
    THEN status = <<"LifecycleState", instance.LifecycleState>>
    ELSE IF HealthFails(instance)
    THEN status = <<"HealthStatus", instance.HealthStatus>>
    ELSE IF TargetFailsAt(a, instance) # {}
    THEN status = <<"TargetHealth",
                    a.target_health[instance.InstanceId]
                        [Least(TargetFailsAt(a, instance))].Reason>>
    ELSE IF BalancerFailsAt(a, instance) # {}
    THEN status = <<"InstanceHealth",
                    a.instance_health[instance.InstanceId]
                        [Least(BalancerFailsAt(a, instance))].ReasonCode>>
    ELSE status = READY_STATUS

(***************************************************************************)
(* C12. Composite status priority: for every instance of the snapshot of   *)
(* an invocation, whatever its lifecycle state, health status, target      *)
(* group records and load balancer records, the status is that of the      *)
(* first failing check in the order lifecycle state, health status, target *)
(* groups, load balancers, and Ready when all pass; an instance absent     *)
(* from both indexes, InService and Healthy, is Ready.                     *)
(***************************************************************************)
C12_StatusPriority ==
    \A i \in Invocations :
        Started(i) =>
            \A k \in Positions(Snapshot(i)) :
                /\ StatusByPriority(Snapshot(i), Snapshot(i).Instances[k],
                                    StatusAt(Snapshot(i), k))
                /\ (/\ ~LifecycleFails(Snapshot(i).Instances[k])
                    /\ ~HealthFails(Snapshot(i).Instances[k])
                    /\ Snapshot(i).target_health = <<>>
                    /\ Snapshot(i).instance_health = <<>>)
                   => StatusAt(Snapshot(i), k) = READY_STATUS

\* An invocation whose instance fails both the target group check and the
\* load balancer check, after a healthy record in each, and has the status
\* of the target group.
C12_Witness ==
    /\ Returned(1)
    /\ ~LifecycleFails(Snapshot(1).Instances[1])
    /\ ~HealthFails(Snapshot(1).Instances[1])
    /\ Least(TargetFailsAt(Snapshot(1), Snapshot(1).Instances[1]) \cup {3}) = 2
    /\ Least(BalancerFailsAt(Snapshot(1), Snapshot(1).Instances[1]) \cup {3}) = 2
    /\ StatusAt(Snapshot(1), 1) = <<"TargetHealth", "Target.DeregistrationInProgress">>

(***************************************************************************)
(* Groups whose runs have every call between them: up to MaxInstances      *)
(* instances that are Ready, terminating or failing a target group check,  *)
(* with nothing or everything suspended.                                   *)
(***************************************************************************)
InitCalls ==
    /\ \E n \in 0..MaxInstances :
       \E lcs \in [1..n -> {LC_OLD, LC_NEW}],
          profiles \in [1..n -> {"Ready", "Terminating", "TargetUnhealthy"}] :
          /\ \E max \in 0..MaxMaxSize, susp \in {{}, SCALING_PROCESSES} :
             \E desired \in 0..max :
                group = [Instances |-> [k \in 1..n |-> Instance(k, lcs[k], profiles[k])],
                         DesiredCapacity |-> desired,
                         MaxSize |-> max,
                         SuspendedProcesses |-> susp,
                         LaunchConfigurationName |-> LC_NEW,
                         Tags |-> ManagedTags]
          /\ target_health = [k \in 1..n |-> TargetHealth(profiles[k])]
          /\ instance_health = [k \in 1..n |-> <<>>]
          /\ next_id = n + 1
    /\ inv = [i \in Invocations |-> Idle]

(***************************************************************************)
(* Calls that fail.  Every mutating call checks the HTTPStatusCode of its  *)
(* response and raises an Exception when it is not 200; nothing catches    *)
(* it, so the invocation ends there.  The call answered so is taken to     *)
(* have had no effect on the group.  inv[i].failed is the position in the  *)
(* run of the call that failed, 0 when none has.                           *)
(***************************************************************************)
\* The response left unchecked: the invocation goes on to its next call.
IssueFails_unchecked(i) ==
    /\ inv[i].pc = "running"
    /\ inv' = [inv EXCEPT ![i].failed = inv[i].issued + 1,
                          ![i].issued = @ + 1,
                          ![i].pc = Ended(inv[i].run, inv[i].issued + 1)]
    /\ UNCHANGED <<group, target_health, instance_health, next_id>>

IssueFails(i) ==
    /\ inv[i].pc = "running"
    /\ inv' = [inv EXCEPT ![i].failed = inv[i].issued + 1,
                          ![i].pc = "failed"]
    /\ UNCHANGED <<group, target_health, instance_health, next_id>>

NextFail ==
    \/ Invocation(1)
    \/ IssueFails(1)

SpecFail == InitCalls /\ [][NextFail]_vars

\* The call of the invocation that failed.
FailedCall(i) == inv[i].run.calls[inv[i].failed]

\* The calls of the run that come after the one that failed.
CallsAfterFailure(i) ==
    SubSeq(inv[i].run.calls, inv[i].failed + 1, Len(inv[i].run.calls))

(***************************************************************************)
(* C13. Failure aborts the invocation: when a mutating call is answered    *)
(* with a status other than success the invocation is in its error state   *)
(* and has issued no call after that one; a failed suspend of the gate     *)
(* leaves the action of the state unissued, and a failed terminate leaves  *)
(* the remaining terminates unissued.                                      *)
(***************************************************************************)
C13_FailureAborts ==
    \A i \in Invocations :
        inv[i].failed # 0 =>
            /\ inv[i].pc = "failed"
            /\ Len(CallsIssued(i)) = inv[i].failed - 1
            /\ IsGateCall(FailedCall(i)) => ActionCalls(i) = <<>>
            /\ FailedCall(i).op = "terminate_instances" =>
                  \A c \in 1..Len(CallsIssued(i)) :
                      CallsIssued(i)[c] \notin Range(CallsAfterFailure(i))

\* A terminate of the overshoot step failed with another terminate still to
\* come.
C13_Witness ==
    /\ inv[1].failed # 0
    /\ FailedCall(1).op = "terminate_instances"
    /\ \E c \in 1..Len(CallsAfterFailure(1)) :
          CallsAfterFailure(1)[c].op = "terminate_instances"

(***************************************************************************)
(* lambda_handler: each group fetched is handed to replace_old_instances   *)
(* when it is managed, and skipped otherwise.  Groups of Ready instances   *)
(* of either launch configuration or of none, the group on either, with    *)
(* any tags.                                                               *)
(***************************************************************************)
\* instance.get('LaunchConfigurationName') of an instance that has none.
LC_NONE == "None"

TagValues ==
    {<<>>,
     <<"0">>,
     <<"1">>,
     <<"n", "o">>,
     <<"N", "O">>,
     <<"o", "n">>,
     <<"o", "f", "f">>,
     <<"O", "f", "f">>,
     <<"O", "F", "F">>,
     <<"o", "f">>,
     <<"f", "a", "l", "s", "e">>,
     <<"F", "a", "l", "s", "e">>,
     <<"t", "r", "u", "e">>,
     <<"d", "i", "s", "a", "b", "l", "e", "d">>,
     <<"D", "I", "S", "A", "B", "L", "E", "D">>,
     <<"e", "n", "a", "b", "l", "e", "d">>}

\* A tag with another key, one of them differing from InstanceReplacement
\* by case only; their values would disable.
OtherTags ==
    {[Key |-> "Name", Value |-> <<"o", "f", "f">>],
     [Key |-> "instancereplacement", Value |-> <<"o", "n">>]}

\* The tags of a group: keys are unique, the order is any.
TagLists ==
    LET ReplacementTags == {[Key |-> "InstanceReplacement", Value |-> value] :
                               value \in TagValues}
    IN  {<<>>}
        \cup {<<tag>> : tag \in OtherTags \cup ReplacementTags}
        \cup {<<other, tag>> : other \in OtherTags, tag \in ReplacementTags}
        \cup {<<tag, other>> : other \in OtherTags, tag \in ReplacementTags}

InitHandler ==
    /\ \E n \in 0..MaxInstances :
       \E lcs \in [1..n -> {LC_OLD, LC_NEW, LC_NONE}] :
          /\ \E max \in 0..MaxMaxSize, lc \in {LC_OLD, LC_NEW}, tags \in TagLists :
             \E desired \in 0..max :
                group = [Instances |-> [k \in 1..n |-> Instance(k, lcs[k], "Ready")],
                         DesiredCapacity |-> desired,
                         MaxSize |-> max,
                         SuspendedProcesses |-> {},
                         LaunchConfigurationName |-> lc,
                         Tags |-> tags]
          /\ target_health = [k \in 1..n |-> TargetHealth("Ready")]
          /\ instance_health = [k \in 1..n |-> <<>>]
          /\ next_id = n + 1
    /\ inv = [i \in Invocations |-> Idle]

\* The group is passed over: replace_old_instances is not called.
Skip(i) ==
    /\ inv[i].pc # "running"
    /\ inv' = [inv EXCEPT ![i] =
                   [pc |-> "skipped", asg |-> AutoScalingGroup,
                    run |-> [state |-> "skipped", calls |-> <<>>,
                             raised |-> FALSE, ids |-> <<>>],
                    issued |-> 0, failed |-> 0]]
    /\ UNCHANGED <<group, target_health, instance_health, next_id>>

lambda_handler(i) ==
    \/ is_managed(AutoScalingGroup) /\ Fetch(i)
    \/ ~is_managed(AutoScalingGroup) /\ Skip(i)

NextHandler ==
    \/ lambda_handler(1)
    \/ Issue(1)

SpecHandler == InitHandler /\ [][NextHandler]_vars

\* The tokens that disable, as the values they are compared with.
DisablingTokens ==
    {<<"0">>,
     <<"d", "i", "s", "a", "b", "l", "e", "d">>,
     <<"f", "a", "l", "s", "e">>,
     <<"n", "o">>,
     <<"o", "f", "f">>}

\* Two characters are the same letter, in either case.
SameLetter(c, d) ==
    \/ c = d
    \/ \E k \in DOMAIN UPPERCASE : {c, d} = {UPPERCASE[k], LOWERCASE[k]}

EqualIgnoringCase(v, w) ==
    /\ Len(v) = Len(w)
    /\ \A k \in DOMAIN v : SameLetter(v[k], w[k])

\* The group carries an InstanceReplacement tag whose value is none of the
\* disabling tokens, whatever its case.
ManagedByTags(a) ==
    \E k \in DOMAIN a.Tags :
        /\ a.Tags[k].Key = "InstanceReplacement"
        /\ \A token \in DisablingTokens : ~EqualIgnoringCase(a.Tags[k].Value, token)

(***************************************************************************)
(* C14. Unmanaged groups are untouched: replace_old_instances runs on a    *)
(* fetched group exactly when the group carries an InstanceReplacement tag *)
(* whose value, whatever its case, is none of 0, disabled, false, no, off  *)
(* (a blank value is managed, no tag is unmanaged); for any other group no *)
(* mutating call is planned or issued.                                     *)
(***************************************************************************)
C14_UnmanagedUntouched ==
    \A i \in Invocations :
        Started(i) =>
            /\ inv[i].pc # "skipped" <=> ManagedByTags(Snapshot(i))
            /\ ~ManagedByTags(Snapshot(i)) =>
                  /\ inv[i].run.calls = <<>>
                  /\ CallsIssued(i) = <<>>

\* A group with an old instance, for which a managed group would be given a
\* call, is skipped for its tag value Off.
C14_Witness ==
    /\ inv[1].pc = "skipped"
    /\ OldAt(Snapshot(1)) # {}
    /\ \E k \in DOMAIN Snapshot(1).Tags :
          /\ Snapshot(1).Tags[k].Key = "InstanceReplacement"
          /\ Snapshot(1).Tags[k].Value = <<"O", "f", "f">>

\* The position in the list of an element of it.
PositionIn(list, x) == CHOOSE k \in DOMAIN list : list[k] = x

\* The elements of part are in the order they have in list.
InOrderOf(part, list) ==
    \A j1, j2 \in DOMAIN part :
        j1 < j2 => PositionIn(list, part[j1]) < PositionIn(list, part[j2])

(***************************************************************************)
(* C15. Old/new partition: in every snapshot each instance is in exactly   *)
(* one of the old and new lists, new exactly when its launch configuration *)
(* is the group's; the two lists are disjoint, together they are the full  *)
(* list, and each keeps the order of the full list.                        *)
(***************************************************************************)
C15_OldNewPartition ==
    \A i \in Invocations :
        Started(i) =>
            LET a == Snapshot(i)
                olds == old(a, a.Instances)
                news == new(a, a.Instances)
            IN  /\ \A k \in Positions(a) :
                      /\ a.Instances[k] \in Range(news)
                            <=> a.Instances[k].LaunchConfigurationName
                                    = a.LaunchConfigurationName
                      /\ a.Instances[k] \in Range(olds)
                            <=> a.Instances[k] \notin Range(news)
                /\ Range(olds) \cap Range(news) = {}
                /\ Range(olds) \cup Range(news) = Range(a.Instances)
                /\ Len(olds) + Len(news) = Len(a.Instances)
                /\ InOrderOf(olds, a.Instances)
                /\ InOrderOf(news, a.Instances)

\* A snapshot with two old instances around a new one, the group on the
\* launch configuration named first.
C15_Witness ==
    /\ Started(1)
    /\ Snapshot(1).LaunchConfigurationName = LC_OLD
    /\ Len(Snapshot(1).Instances) = 3
    /\ OldAt(Snapshot(1)) = {1, 3}
    /\ Len(old(Snapshot(1), Snapshot(1).Instances)) = 2

\* The call invocation i issues in this step, if it issues one.
Issues(i, op) ==
    /\ inv[i].pc = "running"
    /\ inv'[i].issued = inv[i].issued + 1
    /\ inv[i].run.calls[inv[i].issued + 1].op = op

\* The old instances of the live group, other than the one named, that the
\* controller has marked unhealthy and that are still in the group: in a
\* rollout no one else sets the health status of an instance.
OtherOldBeingRetired(instance_id) ==
    {k \in 1..Len(group.Instances) :
        /\ group.Instances[k].LaunchConfigurationName # group.LaunchConfigurationName
        /\ group.Instances[k].InstanceId # instance_id
        /\ group.Instances[k].HealthStatus = "Unhealthy"}

(***************************************************************************)
(* C16. Bounded concurrent capacity loss: across the invocations for one   *)
(* group, overlapping ones on stale snapshots included, an old instance is *)
(* never marked unhealthy while a different old instance, marked earlier,  *)
(* is still in the group unhealthy or terminating.                         *)
(* Violated by two overlapping invocations whose snapshots differ in which *)
(* old instance is the first unready one.                                  *)
(***************************************************************************)
C16_OneRetirementAtATime ==
    [][\A i \in Invocations :
          Issues(i, "set_instance_health") =>
              OtherOldBeingRetired(inv[i].run.calls[inv[i].issued + 1].InstanceId) = {}]_vars

(***************************************************************************)
(* Two invocations for one group with nothing else changing it: each       *)
(* describes the group and issues its calls, in any interleaving.          *)
(***************************************************************************)
NextTwice == \E i \in Invocations : Invocation(i)

SpecTwice == InitCalls /\ [][NextTwice]_vars

\* The group a snapshot was taken of.
GroupOf(a) ==
    [Instances |-> a.Instances,
     DesiredCapacity |-> a.DesiredCapacity,
     MaxSize |-> a.MaxSize,
     SuspendedProcesses |-> a.SuspendedProcesses,
     LaunchConfigurationName |-> a.LaunchConfigurationName,
     Tags |-> a.Tags]

\* The group after the calls, applied once and in their order.
RECURSIVE ApplyAll(_, _)
ApplyAll(g, calls) ==
    IF calls = <<>> THEN g ELSE ApplyAll(Apply(g, Head(calls)), Tail(calls))

\* Both invocations have acted on the same snapshot and are over.
BothActedOnOneSnapshot ==
    /\ Returned(1)
    /\ Returned(2)
    /\ Snapshot(1) = Snapshot(2)

InitOvershoot ==
    /\ \E n \in 1..MaxInstances :
       \E lcs \in [1..n -> {LC_OLD, LC_NEW}], profiles \in [1..n -> Profiles] :
          /\ \E max \in 0..(n - 1), susp \in {{}, SCALING_PROCESSES} :
                group = [Instances |-> [k \in 1..n |-> Instance(k, lcs[k], profiles[k])],
                         DesiredCapacity |-> max,
                         MaxSize |-> max,
                         SuspendedProcesses |-> susp,
                         LaunchConfigurationName |-> LC_NEW,
                         Tags |-> ManagedTags]
          /\ target_health = [k \in 1..n |-> TargetHealth(profiles[k])]
          /\ instance_health = [k \in 1..n |-> <<>>]
          /\ next_id = n + 1
    /\ inv = [i \in Invocations |-> Idle]

SpecOvershoot == InitOvershoot /\ [][Next]_vars

\* The class of the instance at position k in the order of termination:
\* terminating, launching, unready, new, remaining.
ClassAt(a, k) ==
    IF StatusAt(a, k) \in TERMINATING_STATUSES THEN 1
    ELSE IF StatusAt(a, k) \in LAUNCHING_STATUSES THEN 2
    ELSE IF StatusAt(a, k) # READY_STATUS THEN 3
    ELSE IF k \in NewAt(a) THEN 4
    ELSE 5

\* The instance at j comes before the one at k: an earlier class, or the same
\* class and earlier in the list.
ComesBefore(a, j, k) ==
    \/ ClassAt(a, j) < ClassAt(a, k)
    \/ ClassAt(a, j) = ClassAt(a, k) /\ j < k

\* The position in the snapshot of the instance selected p-th.
SelectedPosition(i, p) ==
    CHOOSE k \in Positions(Snapshot(i)) :
        Snapshot(i).Instances[k].InstanceId = Selected(i)[p]

(***************************************************************************)
(* C18. Overshoot priority order: with more instances than MaxSize the     *)
(* instances are selected in the order terminating, launching, unready,    *)
(* new, remaining, each class in the order of the list: an instance is     *)
(* selected only if every instance that comes before it is selected; so a  *)
(* Ready old instance is selected only when every instance that is not     *)
(* Ready and every new instance is.                                        *)
(***************************************************************************)
C18_OvershootOrder ==
    \A i \in Invocations :
        (Started(i) /\ Overshoot(Snapshot(i))) =>
            LET a == Snapshot(i)
            IN  /\ \A j, k \in Positions(a) :
                      (ComesBefore(a, j, k) /\ k \in SelectedAt(i)) => j \in SelectedAt(i)
                /\ \A p, q \in DOMAIN Selected(i) :
                      p < q => ComesBefore(a, SelectedPosition(i, p), SelectedPosition(i, q))
                /\ \A k \in SelectedAt(i) \cap OldAt(a) \cap ReadyAt(a) :
                      (Positions(a) \ ReadyAt(a)) \cup NewAt(a) \subseteq SelectedAt(i)

\* A Ready new instance is selected after a launching one, and the Ready old
\* instance that is first in the list is not selected.
C18_Witness ==
    /\ Started(1)
    /\ Overshoot(Snapshot(1))
    /\ Len(Selected(1)) = 2
    /\ 1 \in (OldAt(Snapshot(1)) \cap ReadyAt(Snapshot(1))) \ SelectedAt(1)
    /\ ClassAt(Snapshot(1), SelectedPosition(1, 1)) = 2
    /\ ClassAt(Snapshot(1), SelectedPosition(1, 2)) = 4

(***************************************************************************)
(* Groups within their maximum size, of instances in any order and         *)
(* condition.                                                              *)
(***************************************************************************)
InitWithinMax ==
    /\ \E n \in 0..MaxInstances :
       \E lcs \in [1..n -> {LC_OLD, LC_NEW}], profiles \in [1..n -> Profiles] :
          /\ \E max \in n..MaxMaxSize, susp \in InitSuspended :
             \E desired \in 0..max :
                group = [Instances |-> [k \in 1..n |-> Instance(k, lcs[k], profiles[k])],
                         DesiredCapacity |-> desired,
                         MaxSize |-> max,
                         SuspendedProcesses |-> susp,
                         LaunchConfigurationName |-> LC_NEW,
                         Tags |-> ManagedTags]
          /\ target_health = [k \in 1..n |-> TargetHealth(profiles[k])]
          /\ instance_health = [k \in 1..n |-> <<>>]
          /\ next_id = n + 1
    /\ inv = [i \in Invocations |-> Idle]

SpecWithinMax == InitWithinMax /\ [][Next]_vars

ResumeLaunch == Call("resume_processes", {"Launch"}, -1, 0)

(***************************************************************************)
(* C19. Await launch resumes only Launch: when neither overshoot nor the   *)
(* capacity raise matches and the group has fewer instances than desired,  *)
(* the invocation issues one resume call naming Launch alone and no other  *)
(* state action; with old instances in the group, once the invocation has  *)
(* returned AlarmNotification, AZRebalance and ScheduledActions are        *)
(* suspended and Launch is not.                                            *)
(***************************************************************************)
C19_AwaitLaunchResumesLaunch ==
    \A i \in Invocations :
        (Returned(i) /\ AwaitLaunchCase(Snapshot(i))) =>
            /\ inv[i].pc = "done"
            /\ ActionCalls(i) = <<ResumeLaunch>>
            /\ OldAt(Snapshot(i)) # {} =>
                  /\ {"AlarmNotification", "AZRebalance", "ScheduledActions"}
                        \subseteq group.SuspendedProcesses
                  /\ "Launch" \notin group.SuspendedProcesses

\* The gate suspended the four processes of a group with an old instance
\* and fewer instances than desired, and Launch was resumed after it.
C19_Witness ==
    /\ Returned(1)
    /\ AwaitLaunchCase(Snapshot(1))
    /\ OldAt(Snapshot(1)) # {}
    /\ Snapshot(1).SuspendedProcesses = {}
    /\ CallsIssued(1) = <<GateCall, ResumeLaunch>>

\* A new instance is not Ready, or an old instance is in the terminating
\* set, and no state before this one matches.
AwaitReadinessCase(a) ==
    /\ PastLaunch(a)
    /\ \/ NewAt(a) \ ReadyAt(a) # {}
       \/ OldAt(a) \cap TerminatingAt(a) # {}

(***************************************************************************)
(* C20. Await readiness is a pure wait: when no state before it matches    *)
(* and a new instance is not Ready or an old instance is in the            *)
(* terminating set, the invocation plans and issues no call but the        *)
(* suspend of the gate, and none when the four processes are suspended     *)
(* already; no instance is marked unhealthy.                               *)
(***************************************************************************)
C20_AwaitReadinessWaits ==
    \A i \in Invocations :
        (Started(i) /\ AwaitReadinessCase(Snapshot(i))) =>
            /\ ~inv[i].run.raised
            /\ \A c \in DOMAIN inv[i].run.calls : inv[i].run.calls[c] = GateCall
            /\ Len(inv[i].run.calls) <= 1
            /\ ActionCalls(i) = <<>>
            /\ SCALING_PROCESSES \subseteq Snapshot(i).SuspendedProcesses =>
                  inv[i].run.calls = <<>>

\* Two old Ready instances and a new one pending, three desired, the four
\* processes suspended: the invocation has returned without a call.
C20_Witness ==
    /\ inv[1].pc = "done"
    /\ Len(Snapshot(1).Instances) = 3
    /\ Snapshot(1).DesiredCapacity = 3
    /\ Cardinality(OldAt(Snapshot(1)) \cap ReadyAt(Snapshot(1))) = 2
    /\ \E k \in NewAt(Snapshot(1)) : StatusAt(Snapshot(1), k) = <<"LifecycleState", "Pending">>
    /\ Snapshot(1).SuspendedProcesses = SCALING_PROCESSES
    /\ inv[1].run.calls = <<>>

====
